---- MODULE Spec2Model ----
(***************************************************************************)
(* Model of package contentaddressable (src/file.go): the File writer that *)
(* streams bytes to a staging file, hashes them, and renames the staging   *)
(* file to its content-addressed name on Accept.                           *)
(*                                                                         *)
(* The filesystem is a map from paths to inodes.  An inode is named after  *)
(* the writer whose OpenFile created it ("ext" for a file created by       *)
(* another program, as TestTempFileCleanup does with os.Create), so a file *)
(* keeps its identity when it is renamed.  Every system call is one step;  *)
(* code between two system calls that touches only the writer's own fields *)
(* is folded into the step of an adjacent system call.                     *)
(***************************************************************************)
EXTENDS Integers, Sequences, FiniteSets, TLC

\* ---------------------------------------------------------------- bounds
\* Most bytes one writer is given over all its Write calls.
MaxLen == 2
\* Most system calls that fail for a reason the model does not derive from
\* its own state (EIO, ENOSPC, EACCES, ...), over a whole run.
MaxFaults == 1

\* ------------------------------------------------------ values and inputs
Writers == {"w1", "w2"}
Bytes == {1, 2}
NoFile == "nofile"
Null == <<>>

\* var DefaultSuffix = "-temp"
DefaultSuffix == <<"-", "t", "e", "m", "p">>
OtherSuffix == <<"-", "b">>
Suffixes == {DefaultSuffix, OtherSuffix}

\* The test directory of SetupFile.
TestPath == "File"

SeqsUpTo(n) == UNION {[1..k -> Bytes] : k \in 0..n}

\* ------------------------------------------------------------ sha256, hex
\* sha256.New(): the state of a fresh hasher.
sha256New == 0

\* hash.Hash.Write: the state after absorbing p, byte by byte and in order.
\* SHA-256 is modelled as collision free: the state is the injective
\* positional code of the byte stream absorbed so far.
RECURSIVE hasherWrite(_, _)
hasherWrite(h, p) ==
    IF p = <<>> THEN h
    ELSE hasherWrite(h * (Cardinality(Bytes) + 1) + Head(p), Tail(p))

\* hash.Hash.Sum(nil): the digest of what was absorbed.
hasherSum(h) == h

\* Number of bytes a hasher state has absorbed (used to bound Write's input).
RECURSIVE absorbed(_)
absorbed(h) == IF h = 0 THEN 0 ELSE 1 + absorbed(h \div (Cardinality(Bytes) + 1))

HexDigits ==
    <<"0", "1", "2", "3", "4", "5", "6", "7", "8", "9", "a", "b", "c", "d", "e", "f">>

\* hex.EncodeToString of a one-byte digest: two lower-case hex digits.
EncodeToString(d) == <<HexDigits[((d \div 16) % 16) + 1], HexDigits[(d % 16) + 1]>>

sha256hex(B) == EncodeToString(hasherSum(hasherWrite(sha256New, B)))

\* ------------------------------------------------------------------ paths
\* A path is <<directory, base name>>.
Join(dir, base) == <<dir, base>>
Base(path) == path[2]
Dir(path) == path[1]
\* filename + suffix
AddSuffix(path, suffix) == <<path[1], path[2] \o suffix>>

\* The content the tests write ("SUP"), here two bytes long, and its name.
Sup == <<1, 2>>
supOid == sha256hex(Sup)

\* The destination the writers of Spec race for, as in the tests.
Filenames == {Join(TestPath, supOid)}
\* The destinations of SpecSolo: the name of every content up to MaxLen bytes.
AllFilenames == {Join(TestPath, sha256hex(B)) : B \in SeqsUpTo(MaxLen)}
TempFilenames == {AddSuffix(f, s) : f \in Filenames \cup AllFilenames, s \in Suffixes}
Paths == Filenames \cup AllFilenames \cup TempFilenames

\* ------------------------------------------------------------------ state
VARIABLES
    dirs,          \* the directories that exist
    fs,            \* the paths that exist -> the inode linked there
    data,          \* inode (named after the writer that created it) -> its bytes
    fd,            \* writer -> whether the descriptor behind its *os.File is open
    pc,            \* writer -> where its caller stands
    Oid,           \* File.Oid   (from "open" on: the local oid of NewWithSuffix)
    filename,      \* File.filename
    tempFilename,  \* File.tempFilename
    tempFile,      \* File.tempFile: "nil" or "file"
    hasher,        \* File.hasher: the state of the running SHA-256
    ret,           \* what the call that returned in the last step returned
    faults         \* the system calls that have failed so far

vars ==
    <<dirs, fs, data, fd, pc, Oid, filename, tempFilename, tempFile, hasher, ret, faults>>

\* What the step just taken returned to its caller: the call `op` of writer
\* `w` returned (n, err) or (created, err); op "Stat" is the os.Stat inside
\* Accept returning err to Accept.  NoResult after a step that is not the
\* return of a call.
NoResult == [w |-> "none", op |-> "none", n |-> 0, created |-> FALSE, err |-> "nil"]
Result(w, op, n, created, err) ==
    [w |-> w, op |-> op, n |-> n, created |-> created, err |-> err]

\* The inode linked at a path, NoFile when the path does not exist.
At(path) == IF path \in DOMAIN fs THEN fs[path] ELSE NoFile

\* The filesystem f with ino linked at path / with path removed.
Link(f, path, ino) == [q \in DOMAIN f \cup {path} |-> IF q = path THEN ino ELSE f[q]]
\* The filesystem had os.RemoveAll(path) left the path in place.
UnlinkNothing(f, path) == f

Unlink(f, path) == [q \in DOMAIN f \ {path} |-> f[q]]

\* The bytes of the file an inode names; a file made by os.Create is empty.
Contents(ino) == IF ino = "ext" THEN <<>> ELSE data[ino]

\* The kernel frees an inode that has neither a link nor an open descriptor.
Collect(newFs, newFd, d) ==
    [i \in Writers |->
        IF newFd[i] \/ (\E q \in DOMAIN newFs : newFs[q] = i) THEN d[i] ELSE <<>>]

\* The budget of injected failures: k more may fail.
CanFail(k) == faults + k <= MaxFaults

Init ==
    /\ dirs = {}
    /\ fs = [q \in {} |-> NoFile]
    /\ data = [w \in Writers |-> <<>>]
    /\ fd = [w \in Writers |-> FALSE]
    /\ pc = [w \in Writers |-> "new"]
    /\ Oid = [w \in Writers |-> Null]
    /\ filename = [w \in Writers |-> Null]
    /\ tempFilename = [w \in Writers |-> Null]
    /\ tempFile = [w \in Writers |-> "nil"]
    /\ hasher = [w \in Writers |-> sha256New]
    /\ ret = NoResult
    /\ faults = 0

\* Closed(), had it never reported a closed writer.
ClosedNever(w) == FALSE

\* func (w *File) Closed() bool
Closed(w) == tempFile[w] = "nil"

\* The writer object of w no longer exists (construction failed, or its
\* process ended): its fields go back to their zero values.
Forget(w) ==
    /\ Oid' = [Oid EXCEPT ![w] = Null]
    /\ filename' = [filename EXCEPT ![w] = Null]
    /\ tempFilename' = [tempFilename EXCEPT ![w] = Null]
    /\ tempFile' = [tempFile EXCEPT ![w] = "nil"]
    /\ hasher' = [hasher EXCEPT ![w] = sha256New]

\* ------------------------------------------------------ NewWithSuffix
\* NewWithSuffix, up to and including os.MkdirAll(dir, 0755).
NewMkdirAll(w, name, suffix) ==
    /\ pc[w] = "new"
    /\ \/ /\ CanFail(1)
          /\ faults' = faults + 1
          /\ ret' = Result(w, "New", 0, FALSE, "EIO")
          /\ UNCHANGED <<dirs, fs, data, fd, pc, Oid, filename, tempFilename, tempFile, hasher>>
       \/ /\ dirs' = dirs \cup {Dir(name)}
          /\ pc' = [pc EXCEPT ![w] = "open"]
          /\ Oid' = [Oid EXCEPT ![w] = Base(name)]
          /\ filename' = [filename EXCEPT ![w] = name]
          /\ tempFilename' = [tempFilename EXCEPT ![w] = AddSuffix(name, suffix)]
          /\ ret' = NoResult
          /\ UNCHANGED <<fs, data, fd, tempFile, hasher, faults>>

\* The errors of os.OpenFile had the flags lacked O_EXCL: an occupied path
\* is opened like a free one.
OpenFileWithoutExcl(path) == {"nil"}

\* os.OpenFile(tempFilename, O_WRONLY|O_CREATE|O_EXCL, 0644): the errors it
\* can return, "nil" when it creates the file.
OpenFileErrors(path) ==
    IF At(path) # NoFile THEN {"EEXIST"}
    ELSE {"nil"} \cup (IF CanFail(1) THEN {"EIO"} ELSE {})

\* NewWithSuffix, from os.OpenFile to the return.
NewOpenFile(w) ==
    /\ pc[w] = "open"
    /\ \E err \in OpenFileErrors(tempFilename[w]) :
         IF err # "nil"
         THEN /\ faults' = faults + (IF err = "EIO" THEN 1 ELSE 0)
              /\ pc' = [pc EXCEPT ![w] = "new"]
              /\ ret' = Result(w, "New", 0, FALSE, err)
              /\ Forget(w)
              /\ UNCHANGED <<dirs, fs, data, fd>>
         ELSE /\ fs' = Link(fs, tempFilename[w], w)
              /\ data' = [data EXCEPT ![w] = <<>>]
              /\ fd' = [fd EXCEPT ![w] = TRUE]
              /\ tempFile' = [tempFile EXCEPT ![w] = "file"]
              /\ hasher' = [hasher EXCEPT ![w] = sha256New]
              /\ pc' = [pc EXCEPT ![w] = "idle"]
              /\ ret' = Result(w, "New", 0, FALSE, "nil")
              /\ UNCHANGED <<dirs, Oid, filename, tempFilename, faults>>

\* ------------------------------------------------------------- Write
\* w.tempFile.Write(p): the (n, err) it can return.  A closed descriptor
\* writes nothing; an open one writes all of p, or fails after a prefix.
FileWriteOutcomes(w, p) ==
    IF ~fd[w] THEN {[n |-> 0, err |-> "ErrClosed"]}
    ELSE {[n |-> Len(p), err |-> "nil"]}
         \cup (IF CanFail(1) THEN {[n |-> k, err |-> "EIO"] : k \in 0..(Len(p) - 1)} ELSE {})

\* The hasher after w.hasher.Write(p), had the hasher forgotten what it
\* absorbed before (only the last slice would be hashed).
HasherRestarted(w, p) == hasherWrite(sha256New, p)

\* The hasher after w.hasher.Write(p).
HasherAfterWrite(w, p) == hasherWrite(hasher[w], p)

\* func (w *File) Write(p []byte) (int, error)
Write(w, p) ==
    /\ pc[w] = "idle"
    /\ IF Closed(w)
       THEN /\ ret' = Result(w, "Write", 0, FALSE, "AlreadyClosed")
            /\ UNCHANGED <<dirs, fs, data, fd, pc, Oid, filename, tempFilename, tempFile, hasher, faults>>
       ELSE /\ hasher' = [hasher EXCEPT ![w] = HasherAfterWrite(w, p)]
            /\ \E o \in FileWriteOutcomes(w, p) :
                 /\ data' = [data EXCEPT ![w] = data[w] \o SubSeq(p, 1, o.n)]
                 /\ ret' = Result(w, "Write", o.n, FALSE, o.err)
                 /\ faults' = faults + (IF o.err = "EIO" THEN 1 ELSE 0)
            /\ UNCHANGED <<dirs, fs, fd, pc, Oid, filename, tempFilename, tempFile>>

\* ------------------------------------------------------------ Accept
\* sig := hex.EncodeToString(w.hasher.Sum(nil))
Sig(w) == EncodeToString(hasherSum(hasher[w]))

\* os.Stat(w.filename): the errors it can return.
StatErrors(path) ==
    IF At(path) = NoFile THEN {"ENOENT"}
    ELSE {"nil"} \cup (IF CanFail(1) THEN {"EIO"} ELSE {})

\* `if _, err := os.Stat(w.filename); err != nil`, had the result of the
\* check been disregarded.
AfterStatAlwaysRename(err) == "accept_rename"

\* Where Accept goes on from what os.Stat returned: `if _, err := ...; err != nil`.
AfterStat(err) == IF err # "nil" THEN "accept_rename" ELSE "accept_cleanup"

\* `if sig != w.Oid`, had the comparison been left out.
MismatchNever(w) == FALSE

\* `if sig != w.Oid`
Mismatch(w) == Sig(w) # Oid[w]

\* Accept, from its start to the return of os.Stat(w.filename).
AcceptStat(w) ==
    /\ pc[w] = "idle"
    /\ IF Closed(w)
       THEN /\ ret' = Result(w, "Accept", 0, FALSE, "AlreadyClosed")
            /\ UNCHANGED <<pc, faults>>
       ELSE IF Mismatch(w)
       THEN /\ ret' = Result(w, "Accept", 0, FALSE, "Mismatch")
            /\ UNCHANGED <<pc, faults>>
       ELSE \E err \in StatErrors(filename[w]) :
            /\ pc' = [pc EXCEPT ![w] = AfterStat(err)]
            /\ faults' = faults + (IF err = "EIO" THEN 1 ELSE 0)
            /\ ret' = Result(w, "Stat", 0, FALSE, err)
    /\ UNCHANGED <<dirs, fs, data, fd, Oid, filename, tempFilename, tempFile, hasher>>

\* os.Rename(old, new): the errors it can return.
RenameErrors(old) ==
    IF At(old) = NoFile THEN {"ENOENT"}
    ELSE {"nil"} \cup (IF CanFail(1) THEN {"EIO"} ELSE {})

\* os.Rename, had it left the old name in place (a link, not a rename).
RenamedKeepingOld(old, new, err) ==
    IF err = "nil" THEN Link(fs, new, fs[old]) ELSE fs

\* The filesystem after os.Rename(old, new) returned err: on success the
\* inode at old is linked at new, replacing whatever was linked there.
Renamed(old, new, err) ==
    IF err = "nil" THEN Unlink(Link(fs, new, fs[old]), old) ELSE fs

\* Accept's branch for an absent destination: w.tempFile.Close(),
\* w.tempFile = nil, return true, os.Rename(w.tempFilename, w.filename).
AcceptRename(w) ==
    /\ pc[w] = "accept_rename"
    /\ fd' = [fd EXCEPT ![w] = FALSE]
    /\ tempFile' = [tempFile EXCEPT ![w] = "nil"]
    /\ \E err \in RenameErrors(tempFilename[w]) :
         /\ fs' = Renamed(tempFilename[w], filename[w], err)
         /\ faults' = faults + (IF err = "EIO" THEN 1 ELSE 0)
         /\ ret' = Result(w, "Accept", 0, TRUE, err)
    /\ data' = Collect(fs', fd', data)
    /\ pc' = [pc EXCEPT ![w] = "idle"]
    /\ UNCHANGED <<dirs, Oid, filename, tempFilename, hasher>>

\* ------------------------------------------------------------- Close
\* f.Close() in cleanupFile: the errors it can return.  The descriptor is
\* closed afterwards whatever it returns.
FileCloseErrors(w) ==
    IF ~fd[w] THEN {"ErrClosed"}
    ELSE {"nil"} \cup (IF CanFail(1) THEN {"EIO"} ELSE {})

\* os.RemoveAll(f.Name()) in cleanupFile, after f.Close() returned cerr.
RemoveAllErrors(cerr) ==
    {"nil"} \cup (IF CanFail(IF cerr = "EIO" THEN 2 ELSE 1) THEN {"EIO"} ELSE {})

\* What cleanupFile returns: RemoveAll's error, else Close's.
CleanupResult(cerr, rerr) == IF rerr # "nil" THEN rerr ELSE cerr

\* File.tempFile after Close's cleanupFile returned err.
TempFileAfterCleanup(w, err) == IF err # "nil" THEN tempFile[w] ELSE "nil"

\* Close, had it removed the staging path of a writer that is already
\* closed as well.
CloseBodyAlwaysRemoving(w, op) ==
    /\ fd' = [fd EXCEPT ![w] = FALSE]
    /\ fs' = Unlink(fs, tempFilename[w])
    /\ data' = Collect(fs', fd', data)
    /\ tempFile' = [tempFile EXCEPT ![w] = "nil"]
    /\ ret' = Result(w, op, 0, FALSE, "nil")
    /\ UNCHANGED faults

\* func (w *File) Close() error, its result reported as a result of op.
CloseBody(w, op) ==
    IF tempFile[w] = "nil"
    THEN /\ ret' = Result(w, op, 0, FALSE, "nil")
         /\ UNCHANGED <<fs, data, fd, tempFile, faults>>
    ELSE \E cerr \in FileCloseErrors(w) : \E rerr \in RemoveAllErrors(cerr) :
         /\ fd' = [fd EXCEPT ![w] = FALSE]
         /\ fs' = IF rerr = "nil" THEN Unlink(fs, tempFilename[w]) ELSE fs
         /\ data' = Collect(fs', fd', data)
         /\ faults' = faults + (IF cerr = "EIO" THEN 1 ELSE 0) + (IF rerr = "EIO" THEN 1 ELSE 0)
         /\ tempFile' = [tempFile EXCEPT ![w] = TempFileAfterCleanup(w, CleanupResult(cerr, rerr))]
         /\ ret' = Result(w, op, 0, FALSE, CleanupResult(cerr, rerr))

\* Accept's branch for an existing destination: return false, w.Close().
AcceptCleanup(w) ==
    /\ pc[w] = "accept_cleanup"
    /\ CloseBody(w, "Accept")
    /\ pc' = [pc EXCEPT ![w] = "idle"]
    /\ UNCHANGED <<dirs, Oid, filename, tempFilename, hasher>>

\* A call of Close by the writer's owner.
Close(w) ==
    /\ pc[w] = "idle"
    /\ CloseBody(w, "Close")
    /\ UNCHANGED <<dirs, pc, Oid, filename, tempFilename, hasher>>

\* ------------------------------------------------------- environment
\* The process that owns w ends, between or after any of its steps: its
\* descriptor is closed by the kernel, its File is gone, its files stay.
Abandon(w) ==
    /\ pc[w] \notin {"new", "dead"}
    /\ pc' = [pc EXCEPT ![w] = "dead"]
    /\ fd' = [fd EXCEPT ![w] = FALSE]
    /\ data' = Collect(fs, fd', data)
    /\ ret' = NoResult
    /\ Forget(w)
    /\ UNCHANGED <<dirs, fs, faults>>

\* Another program creates an (empty) file at a destination that is absent,
\* as TestTempFileCleanup does with os.Create(filename).
ExternalCreate(name) ==
    /\ Dir(name) \in dirs
    /\ At(name) = NoFile
    /\ fs' = Link(fs, name, "ext")
    /\ ret' = NoResult
    /\ UNCHANGED <<dirs, data, fd, pc, Oid, filename, tempFilename, tempFile, hasher, faults>>

\* ------------------------------------------------------ specification
\* The byte slices a caller may pass to Write while w has been given no
\* more than k bytes in all.
Inputs(w, k) == {p \in SeqsUpTo(k) : absorbed(hasher[w]) + Len(p) <= k}

\* Two writers race for the destination named after Sup; neither is given
\* more bytes than Sup has.
Next ==
    \/ \E w \in Writers, name \in Filenames, suffix \in Suffixes : NewMkdirAll(w, name, suffix)
    \/ \E w \in Writers : NewOpenFile(w)
    \/ \E w \in Writers : \E p \in Inputs(w, Len(Sup)) : Write(w, p)
    \/ \E w \in Writers : AcceptStat(w)
    \/ \E w \in Writers : AcceptRename(w)
    \/ \E w \in Writers : AcceptCleanup(w)
    \/ \E w \in Writers : Close(w)
    \/ \E w \in Writers : Abandon(w)
    \/ \E name \in Filenames : ExternalCreate(name)

Spec == Init /\ [][Next]_vars

\* func NewFile(filename string) (*File, error), up to os.MkdirAll.
NewFile(w, name) == NewMkdirAll(w, name, DefaultSuffix)

\* One writer on its own, made by NewFile for any destination named after a
\* content of up to MaxLen bytes and given any slicing of up to MaxLen bytes.
Solo == "w1"

NextSolo ==
    \/ \E name \in AllFilenames : NewFile(Solo, name)
    \/ NewOpenFile(Solo)
    \/ \E p \in Inputs(Solo, MaxLen) : Write(Solo, p)
    \/ AcceptStat(Solo)
    \/ AcceptRename(Solo)
    \/ Close(Solo)

SpecSolo == Init /\ [][NextSolo]_vars

TypeOK ==
    /\ dirs \subseteq {TestPath}
    /\ DOMAIN fs \subseteq Paths
    /\ \A q \in DOMAIN fs : fs[q] \in Writers \cup {"ext"}
    /\ fd \in [Writers -> BOOLEAN]
    /\ \A w \in Writers : tempFile[w] \in {"nil", "file"}
    /\ \A w \in Writers : pc[w] \in {"new", "open", "idle", "accept_rename", "accept_cleanup", "dead"}
    /\ faults \in 0..MaxFaults

\* ================================================================ claims
\* The destinations and the files writers put there.
PutByWriter(f) == At(f) \in Writers

\* ---------------------------------------------------------------- C1
\* C1: in every reachable state (a writer may stop for good in any of them),
\* a file that a writer put at a destination has contents whose SHA-256 hex
\* digest is the destination's base name.
C1_DestinationMatchesName ==
    \A f \in Filenames :
        PutByWriter(f) => sha256hex(Contents(At(f))) = Base(f)

\* ---------------------------------------------------------------- C2
\* C2: a writer on its own, made by NewFile for the name of a content B and
\* given B in any slicing with no call failing, has Accept return
\* (true, nil); the destination then holds exactly B, the staging path is
\* free and the writer is closed.
C2_AnySlicingIsAccepted ==
    LET w == Solo IN
    (/\ ret.w = w /\ ret.op = "Accept" /\ ret.err # "AlreadyClosed"
     /\ faults = 0
     /\ sha256hex(data[w]) = Oid[w])
    => /\ ret.created /\ ret.err = "nil"
       /\ At(filename[w]) = w
       /\ \A B \in SeqsUpTo(MaxLen) :
             filename[w] = Join(TestPath, sha256hex(B)) => Contents(At(filename[w])) = B
       /\ At(tempFilename[w]) = NoFile
       /\ Closed(w)

\* Accept has just published a content of MaxLen bytes.
C2_Witness ==
    /\ ret.w = Solo /\ ret.op = "Accept" /\ ret.created /\ ret.err = "nil"
    /\ faults = 0
    /\ At(filename[Solo]) = Solo
    /\ Len(data[Solo]) = MaxLen

\* ---------------------------------------------------------------- C6
\* C6: after every Write call, whatever it returns, the hasher holds the
\* hash of exactly the bytes that are in the staging file.
C6_DigestIsOfFileBytes ==
    \A w \in Writers :
        (ret.w = w /\ ret.op = "Write" /\ ret.err # "AlreadyClosed")
        => hasher[w] = hasherWrite(sha256New, data[w])

\* ---------------------------------------------------------------- C3
\* C3: an Accept whose digest differs from Oid returns (false, mismatch)
\* and changes no file; a Close that follows it leaves the destination as
\* it is.
C3_MismatchLeavesDestination ==
    [][\A w \in Writers :
        /\ (AcceptStat(w) /\ tempFile[w] = "file" /\ Sig(w) # Oid[w])
           => /\ ret' = Result(w, "Accept", 0, FALSE, "Mismatch")
              /\ fs' = fs /\ data' = data
              /\ pc'[w] = "idle"
        /\ (Close(w) /\ ret = Result(w, "Accept", 0, FALSE, "Mismatch"))
           => At(filename[w])' = At(filename[w])]_vars

\* A mismatch was just reported for a writer that was given bytes, and no
\* destination exists.
C3_Witness ==
    \E w \in Writers :
        /\ ret = Result(w, "Accept", 0, FALSE, "Mismatch")
        /\ data[w] # <<>>
        /\ At(filename[w]) = NoFile

\* ---------------------------------------------------------------- C4
\* C4: with no system call failing, a destination that a writer has put in
\* place is never replaced: a later finalizer does not rename over it.
C4_DestinationNeverOverwritten ==
    [][\A f \in Filenames :
        (PutByWriter(f) /\ faults' = 0) => At(f)' = At(f)]_vars

\* ---------------------------------------------------------------- C5
\* C5: at no time are two open writers (Closed() = false) bound to the
\* same staging path.
C5_NoSharedStagingPath ==
    \A w1, w2 \in Writers :
        (w1 # w2 /\ ~Closed(w1) /\ ~Closed(w2)) => tempFilename[w1] # tempFilename[w2]

\* ---------------------------------------------------------------- C7
\* C7: with no system call failing, the call that follows an Accept that
\* returned a result, or a Close, on the same writer is rejected with
\* AlreadyClosed when it is a Write or an Accept.
C7_OutcomesAreTerminal ==
    [][\A w \in Writers :
        (/\ ret.w = w /\ ret.op \in {"Accept", "Close"}
         /\ faults' = 0
         /\ (AcceptStat(w) \/ \E p \in SeqsUpTo(MaxLen) : Write(w, p)))
        => ret'.err = "AlreadyClosed"]_vars

\* ---------------------------------------------------------------- C8
\* C8: when Accept has returned an error (mismatch, rename failure, failure
\* to discard the staging copy), the Close that follows and returns nil
\* leaves no file at the staging path.
C8_CloseAfterFailedAcceptCleans ==
    [][\A w \in Writers :
        (/\ ret.w = w /\ ret.op = "Accept" /\ ret.err \notin {"nil", "AlreadyClosed"}
         /\ Close(w)
         /\ ret'.err = "nil")
        => At(tempFilename[w])' = NoFile]_vars

\* ---------------------------------------------------------------- C9
\* C9: a Close or an Accept that returns a nil error leaves the writer
\* released; on a released writer every Write returns (0, AlreadyClosed)
\* and every Accept returns (false, AlreadyClosed), and neither changes a
\* file, a descriptor or the writer.
C9_ReleasedWriterRejects ==
    /\ [](\A w \in Writers :
            (ret.w = w /\ ret.op \in {"Accept", "Close"} /\ ret.err = "nil")
            => tempFile[w] = "nil")
    /\ [][\A w \in Writers :
            (pc[w] = "idle" /\ tempFile[w] = "nil")
            => /\ \A p \in SeqsUpTo(MaxLen) :
                    Write(w, p) => /\ ret' = Result(w, "Write", 0, FALSE, "AlreadyClosed")
                                   /\ UNCHANGED <<fs, data, fd, hasher, tempFile, pc, faults>>
               /\ AcceptStat(w) => /\ ret' = Result(w, "Accept", 0, FALSE, "AlreadyClosed")
                                   /\ UNCHANGED <<fs, data, fd, hasher, tempFile, pc, faults>>]_vars

\* A Write was just rejected on a writer whose Accept had published its
\* file.
C9_Witness ==
    \E w \in Writers :
        /\ ret = Result(w, "Write", 0, FALSE, "AlreadyClosed")
        /\ At(filename[w]) = w

\* --------------------------------------------------------------- C10
\* A step in which a call of Accept by w returns.
AcceptReturns(w) ==
    /\ AcceptStat(w) \/ AcceptRename(w) \/ AcceptCleanup(w)
    /\ ret'.op = "Accept"

\* The step moved the file at w's staging path to w's destination.
RenamePlaced(w) ==
    /\ At(tempFilename[w]) # NoFile
    /\ At(filename[w])' = At(tempFilename[w])
    /\ At(tempFilename[w])' = NoFile

C11_DuplicateLeavesDestination ==
    [][\A w \in Writers :
         /\ (/\ AcceptStat(w)
             /\ tempFile[w] = "file"
             /\ Sig(w) = Oid[w]
             /\ At(filename[w]) # NoFile
             /\ faults' = 0)
            => /\ pc'[w] = "accept_cleanup"
               /\ At(filename[w])' = At(filename[w])
               /\ Contents(At(filename[w]))' = Contents(At(filename[w]))
               /\ At(tempFilename[w])' = At(tempFilename[w])
         /\ (AcceptCleanup(w) /\ faults' = 0)
            => /\ ret' = Result(w, "Accept", 0, FALSE, "nil")
               /\ At(tempFilename[w])' = NoFile
               /\ tempFile'[w] = "nil"
               /\ ~fd'[w]
               /\ At(filename[w]) # NoFile
               /\ At(filename[w])' = At(filename[w])
               /\ Contents(At(filename[w]))' = Contents(At(filename[w]))]_vars

\* Accept has just returned (false, nil) in a run without a failed call:
\* the file at the destination is the empty one made by os.Create, not the
\* staged bytes, and the staging file is gone.
C11_Witness ==
    \E w \in Writers :
        /\ ret = Result(w, "Accept", 0, FALSE, "nil")
        /\ faults = 0
        /\ sha256hex(Contents(At(filename[w]))) # Oid[w]
        /\ At(filename[w]) = "ext"
        /\ At(tempFilename[w]) = NoFile
        /\ tempFile[w] = "nil"

\* C12: a Close that follows a Close of the same writer, and in which no
\* system call fails, returns nil and changes nothing: no file, no
\* descriptor, no handle, no digest state.
C12_SecondCloseIsNoOp ==
    [][\A w \in Writers :
         (/\ ret.w = w
          /\ ret.op = "Close"
          /\ Close(w)
          /\ faults' = faults)
         => /\ ret'.err = "nil"
            /\ UNCHANGED <<fs, data, fd, tempFile, hasher>>]_vars

\* C13: a Close of a writer that is still open on its descriptor (it was
\* constructed and written to; no Accept released it and no earlier Close
\* ran), in which no system call fails, returns nil, leaves no file at the
\* staging path and releases the writer, and does not change what is at the
\* destination: a destination that was absent stays absent.
C13_CancelLeavesNothing ==
    [][\A w \in Writers :
         (/\ Close(w)
          /\ tempFile[w] = "file"
          /\ fd[w]
          /\ faults' = faults)
         => /\ ret' = Result(w, "Close", 0, FALSE, "nil")
            /\ At(tempFilename[w])' = NoFile
            /\ At(filename[w])' = At(filename[w])
            /\ tempFile'[w] = "nil"]_vars

\* Close has just returned nil to a writer that had bytes written to it:
\* neither its destination nor its staging path exists.
C13_Witness ==
    \E w \in Writers :
        /\ ret = Result(w, "Close", 0, FALSE, "nil")
        /\ hasher[w] # sha256New
        /\ tempFilename[w] # Null
        /\ At(filename[w]) = NoFile
        /\ At(tempFilename[w]) = NoFile
        /\ data[w] = <<>>

\* C14: for every writer that has been constructed and not abandoned,
\* Closed() is true exactly when its staging file handle is not open; and
\* after a Close has returned, with nil or with an error, Closed() is true.
C14_ClosedIffHandleNotOpen ==
    \A w \in Writers :
        /\ pc[w] # "dead" => (Closed(w) <=> ~fd[w])
        /\ (ret.w = w /\ ret.op = "Close") => Closed(w)

\* C15: when the os.Stat inside Accept fails with an error other than
\* 'does not exist', Accept does not go on as if the destination were
\* absent, and the call returns a non-nil error: the rename that directly
\* follows such a failure is not run, and no Accept returns a nil error
\* from it.
C15_StatFailureIsReported ==
    [][\A w \in Writers :
         /\ (AcceptStat(w) /\ ret' = Result(w, "Stat", 0, FALSE, "EIO"))
            => pc'[w] # "accept_rename"
         /\ (ret = Result(w, "Stat", 0, FALSE, "EIO") /\ AcceptRename(w))
            => ret'.err # "nil"]_vars

\* C16: in a run where no system call has failed, after Accept has returned
\* the mismatch error the writer's staging file exists, belongs to the
\* writer and holds exactly the bytes its digest state has absorbed, the
\* writer is not closed; and a Close taken next returns nil and removes the
\* staging file.
C16_MismatchKeepsStagingUntilClose ==
    /\ [](\A w \in Writers :
            (ret = Result(w, "Accept", 0, FALSE, "Mismatch") /\ faults = 0)
            => /\ At(tempFilename[w]) = w
               /\ hasher[w] = hasherWrite(sha256New, Contents(At(tempFilename[w])))
               /\ tempFile[w] = "file"
               /\ fd[w])
    /\ [][\A w \in Writers :
            (/\ ret = Result(w, "Accept", 0, FALSE, "Mismatch")
             /\ Close(w)
             /\ faults' = 0)
            => /\ ret' = Result(w, "Close", 0, FALSE, "nil")
               /\ At(tempFilename[w])' = NoFile
               /\ tempFile'[w] = "nil"]_vars

\* Accept has just returned the mismatch error to a writer that was written
\* to in two calls, and its staging file holds those bytes.
C16_Witness ==
    \E w \in Writers :
        /\ ret = Result(w, "Accept", 0, FALSE, "Mismatch")
        /\ faults = 0
        /\ Len(Contents(At(tempFilename[w]))) = 2
        /\ hasher[w] = hasherWrite(hasherWrite(sha256New, <<2>>), <<1>>)

\* The step changed which file is at f, or the bytes of the file at f.
DestinationChanged(f) ==
    \/ At(f)' # At(f)
    \/ At(f) # NoFile /\ Contents(At(f))' # Contents(At(f))

\* C17: a step of the library changes the existence or the contents of a
\* destination only if it is the rename step of an Accept bound to that
\* destination whose os.Stat found it absent; construction, Write, Close, a
\* mismatching Accept and an Accept that takes the clean-up branch leave it
\* as it was.  (os.Create by someone else is not a step of the library.)
C17_OnlyRenameChangesDestination ==
    [][\A f \in Filenames :
         (DestinationChanged(f) /\ ~ExternalCreate(f))
         => \E w \in Writers :
              /\ AcceptRename(w)
              /\ filename[w] = f
              /\ (ret.w = w /\ ret.op = "Stat") => ret.err = "ENOENT"]_vars

\* C18: a construction whose os.OpenFile finds the staging path occupied
\* returns the 'exists' error and changes no file, no file's bytes, and
\* nothing of any other writer: its handle, descriptor, digest state,
\* names and position stay as they were, so the first writer continues
\* from the very state it was in.
C18_FailedConstructionChangesNothing ==
    [][\A w \in Writers :
         (NewOpenFile(w) /\ At(tempFilename[w]) # NoFile)
         => /\ ret' = Result(w, "New", 0, FALSE, "EEXIST")
            /\ tempFile'[w] = "nil"
            /\ UNCHANGED <<fs, data, dirs>>
            /\ \A v \in Writers \ {w} :
                 /\ tempFile'[v] = tempFile[v]
                 /\ fd'[v] = fd[v]
                 /\ hasher'[v] = hasher[v]
                 /\ Oid'[v] = Oid[v]
                 /\ filename'[v] = filename[v]
                 /\ tempFilename'[v] = tempFilename[v]
                 /\ pc'[v] = pc[v]]_vars

\* A construction has just failed on an occupied staging path while the
\* other writer is open on its staging file with bytes written to it.
C18_Witness ==
    \E w \in Writers : \E v \in Writers \ {w} :
        /\ ret = Result(w, "New", 0, FALSE, "EEXIST")
        /\ tempFile[v] = "file"
        /\ fd[v]
        /\ At(tempFilename[v]) = v
        /\ Contents(v) # <<>>
        /\ hasher[v] = hasherWrite(sha256New, Contents(v))

\* No system call has failed and no writer has been abandoned.
CleanRun == faults = 0 /\ \A w \in Writers : pc[w] # "dead"

\* C19: in a run where no system call has failed and no writer has been
\* abandoned, a file exists at a staging path exactly when a writer with
\* Closed() = false is bound to that path; when Accept has returned
\* (true, nil), or Close has returned nil, the writer is closed and its own
\* staging file is gone (the path is free or holds the file of a writer
\* constructed since); and a construction whose staging path no open
\* writer is bound to succeeds.
C19_StagingFileIffOpenWriter ==
    /\ [](CleanRun =>
            /\ \A t \in TempFilenames :
                 At(t) # NoFile
                 <=> \E w \in Writers : ~Closed(w) /\ tempFilename[w] = t
            /\ \A w \in Writers :
                 (\/ ret = Result(w, "Accept", 0, TRUE, "nil")
                  \/ ret = Result(w, "Close", 0, FALSE, "nil"))
                 => /\ Closed(w)
                    /\ tempFilename[w] # Null
                       => At(tempFilename[w]) \in {NoFile} \cup (Writers \ {w}))
    /\ [][\A v \in Writers :
            (/\ NewOpenFile(v)
             /\ CleanRun'
             /\ ~\E w \in Writers : ~Closed(w) /\ tempFilename[w] = tempFilename[v])
            => /\ ret' = Result(v, "New", 0, FALSE, "nil")
               /\ At(tempFilename[v])' = v
               /\ ~Closed(v)']_vars

\* In a clean run a second writer has just been constructed on the staging
\* path that the first one, now closed, had used.
C19_Witness ==
    \E w \in Writers : \E v \in Writers \ {w} :
        /\ CleanRun
        /\ ret = Result(v, "New", 0, FALSE, "nil")
        /\ tempFilename[v] = tempFilename[w]
        /\ pc[w] = "idle"
        /\ hasher[w] # sha256New
        /\ Closed(w)
        /\ ~Closed(v)
        /\ At(tempFilename[v]) = v

\* A file is at the staging path t and no writer with a staging handle
\* (Closed() = false) is bound to t.
Orphaned(t) ==
    /\ At(t) # NoFile
    /\ \A w \in Writers : tempFile[w] = "file" => tempFilename[w] # t

\* C20: once a staging file is left behind without an open writer, no step
\* of any writer removes, moves or replaces it, so it stays left behind;
\* and every construction whose os.OpenFile runs on that path fails with
\* the 'exists' error.
C20_OrphanedStagingFileStays ==
    [][\A t \in TempFilenames :
         Orphaned(t)
         => /\ Orphaned(t)'
            /\ At(t)' = At(t)
            /\ \A w \in Writers :
                 (NewOpenFile(w) /\ tempFilename[w] = t)
                 => ret' = Result(w, "New", 0, FALSE, "EEXIST")]_vars

\* A construction has just failed with the 'exists' error although no
\* writer at all holds a staging handle: the path is occupied by a staging
\* file left behind, by an abandoned writer or by a failed rename.
C20_Witness ==
    /\ \E w \in Writers : ret = Result(w, "New", 0, FALSE, "EEXIST")
    /\ \A w \in Writers : tempFile[w] = "nil"
    /\ \E t \in TempFilenames : Orphaned(t)

====
